---- MODULE Spec2Model ----
(***************************************************************************)
(* A model of tri.c (src/Tri.cxx, first complete copy, lines 1-453): the   *)
(* DSL -> asm1 -> lines2 -> out.bin translator.                            *)
(*                                                                         *)
(* Text is kept as text: source lines, lowered lines and operands are      *)
(* strings, and trimming, tokenising, case folding and number parsing work *)
(* on their characters as the C code does.  32-bit unsigned values are     *)
(* pairs <<hi, lo>> of 16-bit halves, so that arithmetic wraps at 2^32.    *)
(***************************************************************************)
EXTENDS Integers, Sequences, FiniteSets, TLC

(***************************************************************************)
(* Program constants.                                                      *)
(***************************************************************************)
MAXL == 512
LNSZ == 80
MAXLB == 128
MAXS == 16
NAMELEN == 15

(***************************************************************************)
(* Bounds of the model.                                                    *)
(***************************************************************************)
MaxLines == 3
MaxScopeLines == 5
MaxDiagLines == 3
MaxImmLines == 2
MaxIOLines == 2
MaxSpace == 2
MaxCapTail == 2
MaxCapGap == 2
MaxDeepBody == 2
MaxDeepGap == 2
MaxLongLines == 2

(***************************************************************************)
(* Characters and strings.                                                 *)
(***************************************************************************)
Min(a, b) == IF a < b THEN a ELSE b

Ch(s, k) == SubSeq(s, k, k)

From(s, k) == SubSeq(s, k, Len(s))

UpperCase == "ABCDEFGHIJKLMNOPQRSTUVWXYZ"

LowerCase == "abcdefghijklmnopqrstuvwxyz"

HexDigits == "0123456789abcdef"

UpperSet == { Ch(UpperCase, k) : k \in 1..26 }

LowerOf == [c \in UpperSet |-> Ch(LowerCase, CHOOSE k \in 1..26 : Ch(UpperCase, k) = c)]

tolower(c) == IF c \in UpperSet THEN LowerOf[c] ELSE c

RECURSIVE ToLowerStr(_)
ToLowerStr(s) == IF s = "" THEN "" ELSE tolower(Ch(s, 1)) \o ToLowerStr(From(s, 2))

\* strncmp(s, p, strlen(p)) == 0
HasPrefix(s, p) == Len(s) >= Len(p) /\ SubSeq(s, 1, Len(p)) = p

LastCh(s) == IF s = "" THEN "" ELSE Ch(s, Len(s))

\* strchr(s, c) as a 1-based position, 0 when c does not occur
StrChr(s, c) ==
  IF \E k \in 1..Len(s) : Ch(s, k) = c
    THEN CHOOSE k \in 1..Len(s) : Ch(s, k) = c /\ \A j \in 1..(k-1) : Ch(s, j) # c
    ELSE 0

IsBlank(c) == c = " " \/ c = "\t"

IsTrail(c) == c = " " \/ c = "\t" \/ c = "\r" \/ c = "\n"

RECURSIVE SkipLead(_)
SkipLead(s) == IF s # "" /\ IsBlank(Ch(s, 1)) THEN SkipLead(From(s, 2)) ELSE s

RECURSIVE DropTrail(_)
DropTrail(s) ==
  IF s # "" /\ IsTrail(Ch(s, Len(s))) THEN DropTrail(SubSeq(s, 1, Len(s) - 1)) ELSE s

trim(s) == DropTrail(SkipLead(s))

IsDelim(c) == c = " " \/ c = "\t" \/ c = ","

\* length of the leading run of non-delimiters of s
RECURSIVE TokLen(_)
TokLen(s) == IF s = "" \/ IsDelim(Ch(s, 1)) THEN 0 ELSE 1 + TokLen(From(s, 2))

\* the successive results of strtok(s, " \t,"), strtok(NULL, " \t,"), ...
RECURSIVE Tokens(_)
Tokens(s) ==
  IF s = "" THEN << >>
  ELSE IF IsDelim(Ch(s, 1)) THEN Tokens(From(s, 2))
  ELSE LET n == TokLen(s) IN << SubSeq(s, 1, n) >> \o Tokens(From(s, n + 1))

(***************************************************************************)
(* uint32_t as <<hi, lo>>, both halves in 0..65535.                        *)
(***************************************************************************)
HALF == 65536

U32(n) == << (n \div HALF) % HALF, n % HALF >>

Add32(a, b) ==
  LET l == a[2] + b[2]
  IN  << (a[1] + b[1] + (l \div HALF)) % HALF, l % HALF >>

Sub32(a, b) ==
  LET l == a[2] - b[2] + HALF
  IN  << (a[1] - b[1] + (HALF - 1) + (l \div HALF)) % HALF, l % HALF >>

\* v * m + d mod 2^32, for a small multiplier m and digit d
MulAdd32(v, m, d) ==
  LET l == v[2] * m + d
  IN  << (v[1] * m + (l \div HALF)) % HALF, l % HALF >>

Neg32(a) == Sub32(<<0, 0>>, a)

\* out of range only from 0x10000 on
Gt255_Wide(a) == a[1] > 0

Gt255(a) == a[1] > 0 \/ a[2] > 255

(***************************************************************************)
(* strtoul / atoi on the characters of the operand.                        *)
(***************************************************************************)
HexSet == { Ch(HexDigits, k) : k \in 1..16 }

HexVal == [c \in HexSet |-> (CHOOSE k \in 1..16 : Ch(HexDigits, k) = c) - 1]

\* the value of c as a digit of the base, -1 when it is none
DigitVal(c, base) ==
  LET lc == tolower(c)
  IN  IF lc \in HexSet /\ HexVal[lc] < base THEN HexVal[lc] ELSE -1

\* digits of s from position k on: value accumulated and first position not consumed
RECURSIVE Digits(_, _, _, _)
Digits(s, k, base, v) ==
  IF k <= Len(s) /\ DigitVal(Ch(s, k), base) >= 0
    THEN Digits(s, k + 1, base, MulAdd32(v, base, DigitVal(Ch(s, k), base)))
    ELSE [v |-> v, end |-> k]

\* strtoul(s, &end, base) truncated to unsigned; end = 1 means "no conversion"
strtoul(s, base) ==
  LET sgn == IF s # "" /\ (Ch(s, 1) = "-" \/ Ch(s, 1) = "+") THEN 1 ELSE 0
      pfx == IF /\ base = 16
                /\ Len(s) >= sgn + 3
                /\ Ch(s, sgn + 1) = "0"
                /\ tolower(Ch(s, sgn + 2)) = "x"
                /\ DigitVal(Ch(s, sgn + 3), 16) >= 0
               THEN 2 ELSE 0
      d   == Digits(s, sgn + pfx + 1, base, <<0, 0>>)
  IN  IF d.end = sgn + pfx + 1
        THEN [v |-> <<0, 0>>, end |-> 1]
        ELSE [v |-> IF sgn = 1 /\ Ch(s, 1) = "-" THEN Neg32(d.v) ELSE d.v, end |-> d.end]

\* atoi(s) converted to uint32_t
atoi(s) == strtoul(s, 10).v

(***************************************************************************)
(* strtol(s, &end, 0) as used by "head +=": white space is skipped, the    *)
(* base follows the prefix (0x hexadecimal, 0 octal, else decimal).  The   *)
(* value is a long; it is only compared with 0 and 255 and then printed,   *)
(* so magnitudes above BIG are kept as BIG.                                *)
(***************************************************************************)
BIG == 100000

IsSpace(c) == c = " " \/ c = "\t" \/ c = "\n" \/ c = "\r"

RECURSIVE SkipSpace(_, _)
SkipSpace(s, k) == IF k <= Len(s) /\ IsSpace(Ch(s, k)) THEN SkipSpace(s, k + 1) ELSE k

RECURSIVE DigitsLong(_, _, _, _)
DigitsLong(s, k, base, v) ==
  IF k <= Len(s) /\ DigitVal(Ch(s, k), base) >= 0
    THEN DigitsLong(s, k + 1, base, Min(v * base + DigitVal(Ch(s, k), base), BIG))
    ELSE [v |-> v, end |-> k]

strtol0(s) ==
  LET b   == SkipSpace(s, 1)
      sgn == IF b <= Len(s) /\ (Ch(s, b) = "-" \/ Ch(s, b) = "+") THEN 1 ELSE 0
      p   == b + sgn
      hex == /\ Len(s) >= p + 2
             /\ Ch(s, p) = "0"
             /\ tolower(Ch(s, p + 1)) = "x"
             /\ DigitVal(Ch(s, p + 2), 16) >= 0
      oct == ~hex /\ p <= Len(s) /\ Ch(s, p) = "0"
      d   == IF hex THEN DigitsLong(s, p + 2, 16, 0)
             ELSE IF oct THEN DigitsLong(s, p, 8, 0)
             ELSE DigitsLong(s, p, 10, 0)
  IN  IF ~hex /\ d.end = p
        THEN [v |-> 0, end |-> 1]
        ELSE [v |-> IF sgn = 1 /\ Ch(s, b) = "-" THEN 0 - d.v ELSE d.v, end |-> d.end]

\* printf("%ld") of a non-negative value
RECURSIVE Dec(_)
Dec(n) == IF n < 10 THEN Ch(HexDigits, n + 1) ELSE Dec(n \div 10) \o Ch(HexDigits, (n % 10) + 1)

(***************************************************************************)
(* pass1: what one DSL line lowers to.  The result names the branch of the *)
(* loop body taken:                                                        *)
(*   emit   - lines appended to asm1; lim is the c of the guard            *)
(*            "al + c >= MAXL" in front of the writes, -1 when the branch  *)
(*            writes without a guard                                       *)
(*   die    - dieSrc(i, msg)                                               *)
(*   open, close, letmut, let - the scope and borrow lines                 *)
(***************************************************************************)
SimpleForms ==
  << <<"org(", "ORG ">>, <<"db(", "DB ">>, <<"fill(", "FILL ">>, <<"int(", "INT ">>,
     <<"jmp(", "JMP ">>, <<"call(", "CALL ">> >>

OneArgForms ==
  << <<"fold_mode(", "INT 0x01">>, <<"bist_start(", "INT 0x10">>, <<"mme(", "INT 0x30">>,
     <<"patch_commit(", "INT 0x04">>, <<"perf_sample(", "INT 0x40">>,
     <<"link_config(", "INT 0x50">> >>

TwoArgForms ==
  << <<"power_gate(", "INT 0x02", "power_gate(unit,op)">>,
     <<"smt_weight(", "INT 0x20", "smt_weight(t,w)">>,
     <<"patch_bank(", "INT 0x03", "patch_bank(bank,flags)">> >>

\* !strncmp(lower, pfx, n) && line[strlen(line)-1] == ')'
IsCall(lower, line, pfx) == HasPrefix(lower, pfx) /\ LastCh(line) = ")"

\* the text between the prefix and the closing parenthesis
Payload(line, pfx) == SubSeq(line, Len(pfx) + 1, Len(line) - 1)

Emit(ls, lim) == [act |-> "emit", lines |-> ls, lim |-> lim, msg |-> ""]

Die(msg) == [act |-> "die", lines |-> << >>, lim |-> 0, msg |-> msg]

Scope(a) == [act |-> a, lines |-> << >>, lim |-> 0, msg |-> ""]

\* the scope, borrow, built-in and fallback part of the loop body; lower is the
\* case-folded copy of the line as read, line the line after the rewrites
pass1_tail(lower, line) ==
  IF line = "{" THEN Scope("open")
  ELSE IF line = "}" THEN Scope("close")
  ELSE IF HasPrefix(line, "let &mut") THEN Scope("letmut")
  ELSE IF HasPrefix(line, "let &") THEN Scope("let")
  ELSE IF line = "tape_start()" THEN Emit(<<"ORG 0x500", "DB 0xBE,0x00,0x05">>, 2)
  ELSE IF line = "load()" THEN Emit(<<"DB 0x8A,0x04">>, 1)
  ELSE IF line = "store()" THEN Emit(<<"DB 0x88,0x04">>, 1)
  ELSE IF HasPrefix(line, "head +=")
    THEN LET r == strtol0(From(line, 8))
         IN  IF r.end = 1 \/ r.v < 0 \/ r.v > 255
               THEN Die("head offset 0..255")
               ELSE Emit(<< "DB 0x83,0xC6," \o Dec(r.v) >>, 1)
  ELSE IF IsCall(lower, line, "org_set(")
    THEN Emit(<< "INT 0x05", "DB " \o Payload(line, "org_set(") >>, -1)
  ELSE Emit(<< line >>, 0)

pass1_line(line) ==
  LET lower == ToLowerStr(line)
      Is(pfx) == IsCall(lower, line, pfx)
  IN  IF \E k \in 1..Len(SimpleForms) : Is(SimpleForms[k][1])
        THEN LET f == SimpleForms[CHOOSE k \in 1..Len(SimpleForms) : Is(SimpleForms[k][1])]
             IN  pass1_tail(lower, f[2] \o Payload(line, f[1]))
      ELSE IF Is("ljmp(")
        THEN LET p == Payload(line, "ljmp(")
                 c == StrChr(p, ",")
             IN  IF c = 0 THEN Die("ljmp() needs two args")
                 ELSE pass1_tail(lower, "LJMP " \o SubSeq(p, 1, c - 1) \o ":" \o From(p, c + 1))
      ELSE IF \E k \in 1..Len(OneArgForms) : Is(OneArgForms[k][1])
        THEN LET f == OneArgForms[CHOOSE k \in 1..Len(OneArgForms) : Is(OneArgForms[k][1])]
             IN  Emit(<< f[2], "DB " \o Payload(line, f[1]) >>, -1)
      ELSE IF \E k \in 1..Len(TwoArgForms) : Is(TwoArgForms[k][1])
        THEN LET f == TwoArgForms[CHOOSE k \in 1..Len(TwoArgForms) : Is(TwoArgForms[k][1])]
                 p == Payload(line, f[1])
                 c == StrChr(p, ",")
             IN  IF c = 0 THEN Die(f[3])
                 ELSE Emit(<< f[2], "DB " \o SubSeq(p, 1, c - 1) \o "," \o trim(From(p, c + 1)) >>,
                           -1)
      ELSE pass1_tail(lower, line)

(***************************************************************************)
(* parseImm: ok = FALSE stands for the dieAsm call.                        *)
(***************************************************************************)
parseImm(s) ==
  IF Len(s) >= 2 /\ Ch(s, 1) = "0" /\ Ch(s, 2) = "x"
    THEN LET rest == From(s, 3)
             r    == strtoul(rest, 16)
         IN  IF r.end = 1 \/ r.end <= Len(rest)
               THEN [ok |-> FALSE, v |-> <<0, 0>>, msg |-> "malformed hex immediate"]
               ELSE [ok |-> TRUE, v |-> r.v, msg |-> ""]
    ELSE LET r == strtoul(s, 10)
         IN  IF r.end = 1
               THEN [ok |-> FALSE, v |-> <<0, 0>>, msg |-> "malformed decimal immediate"]
               ELSE [ok |-> TRUE, v |-> r.v, msg |-> ""]

(***************************************************************************)
(* line_sz: the size the sizer gives a line.  crash = TRUE stands for      *)
(* atoi(NULL), FILL without an operand.                                    *)
(***************************************************************************)
line_sz(ln) ==
  LET toks == Tokens(ln)
      tok  == toks[1]
      Sz(n) == [crash |-> FALSE, sz |-> n]
  IN  IF toks = << >> THEN Sz(<<0, 0>>)
      ELSE IF LastCh(tok) = ":" THEN Sz(<<0, 0>>)
      ELSE IF tok = "ORG" THEN Sz(<<0, 0>>)
      ELSE IF tok = "DB" THEN Sz(U32(Len(toks) - 1))
      ELSE IF tok = "FILL"
        THEN IF Len(toks) < 2 THEN [crash |-> TRUE, sz |-> <<0, 0>>] ELSE Sz(atoi(toks[2]))
      ELSE IF tok = "INT" THEN Sz(U32(2))
      ELSE IF tok = "JMP" \/ tok = "CALL" THEN Sz(U32(5))
      ELSE IF tok = "LJMP" THEN Sz(U32(6))
      ELSE Sz(<<0, 0>>)

(***************************************************************************)
(* The label table: recordLabel and find_lbl.                              *)
(***************************************************************************)
\* strncpy(name, nm, 15); name[15] = 0
StoredName(nm) == SubSeq(nm, 1, Min(Len(nm), NAMELEN))

\* the loop of recordLabel and of find_lbl: strcmp(lbl2[i].name, nm) == 0 for some i
Known(tbl, nm) == \E k \in 1..Len(tbl) : tbl[k].name = nm

recordLabel(tbl, nm, pc) ==
  IF Known(tbl, nm) THEN [ok |-> FALSE, tbl |-> tbl, msg |-> "duplicate label"]
  ELSE IF Len(tbl) >= MAXLB THEN [ok |-> FALSE, tbl |-> tbl, msg |-> "too many labels"]
  ELSE [ok |-> TRUE, tbl |-> Append(tbl, [name |-> StoredName(nm), addr |-> pc]), msg |-> ""]

find_lbl(tbl, nm) ==
  IF Known(tbl, nm)
    THEN [ok |-> TRUE,
          addr |-> tbl[CHOOSE k \in 1..Len(tbl) :
                         tbl[k].name = nm /\ \A j \in 1..(k-1) : tbl[j].name # nm].addr]
    ELSE [ok |-> FALSE, addr |-> <<0, 0>>]

(***************************************************************************)
(* e8 / e16 / e32 as the bytes they put, in order.                         *)
(***************************************************************************)
e8(b) == << b % 256 >>

\* e16 of a 16-bit value
e16(w) == e8(w % 256) \o e8(w \div 256)

\* e32(w) == e16(w & 0xFFFF); e16(w >> 16)
e32(w) == e16(w[2]) \o e16(w[1])

(***************************************************************************)
(* asm_passB: what one line makes the emitter do.                          *)
(*   res   - "ok", "die" (dieAsm with msg) or "crash" (a null pointer is   *)
(*           read: a missing operand)                                      *)
(*   bytes - the bytes put before the line ends, fails or crashes          *)
(*   seek  - TRUE for ORG: fseek(out, pc, SEEK_SET)                        *)
(*   pc    - the PC after the line                                         *)
(***************************************************************************)
Res(r, bs, pc, sk, m) == [res |-> r, bytes |-> bs, pc |-> pc, seek |-> sk, msg |-> m]

\* the DB loop over the operands toks[k..]
RECURSIVE emit_db(_, _, _, _)
emit_db(toks, k, bs, pc) ==
  IF k > Len(toks) THEN Res("ok", bs, pc, FALSE, "")
  ELSE LET b == parseImm(toks[k])
       IN  IF ~b.ok THEN Res("die", bs, pc, FALSE, b.msg)
           ELSE IF Gt255(b.v) THEN Res("die", bs, pc, FALSE, "DB byte out of range")
           ELSE emit_db(toks, k + 1, bs \o e8(b.v[2]), Add32(pc, U32(1)))

\* the FILL loop: cnt times e8(val); pc++
RECURSIVE emit_fill(_, _, _, _)
emit_fill(cnt, val, bs, pc) ==
  IF cnt = <<0, 0>> THEN Res("ok", bs, pc, FALSE, "")
  ELSE emit_fill(Sub32(cnt, U32(1)), val, bs \o e8(val), Add32(pc, U32(1)))

\* a displacement measured from the start of the instruction
Rel_FromStart(dest, pc) == Sub32(dest, pc)

\* int32_t rel = (int32_t)dest - (int32_t)(pc + 5), as the uint32_t handed to e32
\* (two's complement: the subtraction wraps at 2^32)
Rel(dest, pc) == Sub32(dest, Add32(pc, U32(5)))

asm_line(toks, tbl, pc) ==
  LET tok == toks[1]
      n   == Len(toks)
  IN  IF tok = "ORG"
        THEN IF n < 2 THEN Res("crash", << >>, pc, FALSE, "")
             ELSE LET v == parseImm(toks[2])
                  IN  IF ~v.ok THEN Res("die", << >>, pc, FALSE, v.msg)
                      ELSE Res("ok", << >>, v.v, TRUE, "")
      ELSE IF tok = "DB" THEN emit_db(toks, 2, << >>, pc)
      ELSE IF tok = "FILL"
        THEN IF n < 2 THEN Res("crash", << >>, pc, FALSE, "")
             ELSE LET cnt == parseImm(toks[2])
                  IN  IF ~cnt.ok THEN Res("die", << >>, pc, FALSE, cnt.msg)
                      ELSE IF n < 3 THEN Res("crash", << >>, pc, FALSE, "")
                      ELSE LET val == parseImm(toks[3])
                           IN  IF ~val.ok THEN Res("die", << >>, pc, FALSE, val.msg)
                               ELSE IF Gt255(val.v)
                                 THEN Res("die", << >>, pc, FALSE, "FILL byte out of range")
                               ELSE emit_fill(cnt.v, val.v[2], << >>, pc)
      ELSE IF tok = "INT"
        THEN IF n < 2 THEN Res("crash", << >>, pc, FALSE, "")
             ELSE LET imm == parseImm(toks[2])
                  IN  IF ~imm.ok THEN Res("die", << >>, pc, FALSE, imm.msg)
                      ELSE IF Gt255(imm.v)
                        THEN Res("die", << >>, pc, FALSE, "INT imm8 out of range")
                      ELSE Res("ok", e8(205) \o e8(imm.v[2]), Add32(pc, U32(2)), FALSE, "")
      ELSE IF tok = "JMP" \/ tok = "CALL"
        THEN LET op == e8(IF Ch(tok, 1) = "J" THEN 233 ELSE 232)
             IN  IF n < 2 THEN Res("crash", op, pc, FALSE, "")
                 ELSE LET dest == find_lbl(tbl, toks[2])
                      IN  IF ~dest.ok THEN Res("die", op, pc, FALSE, "undefined label")
                          ELSE Res("ok", op \o e32(Rel(dest.addr, pc)),
                                   Add32(pc, U32(5)), FALSE, "")
      ELSE IF tok = "LJMP"
        THEN LET op == e8(234)
             IN  IF n < 2 \/ StrChr(toks[2], ":") = 0 THEN Res("crash", op, pc, FALSE, "")
                 ELSE LET c   == StrChr(toks[2], ":")
                          off == parseImm(SubSeq(toks[2], 1, c - 1))
                          sg  == parseImm(From(toks[2], c + 1))
                      IN  IF ~off.ok THEN Res("die", op, pc, FALSE, off.msg)
                          ELSE IF ~sg.ok THEN Res("die", op, pc, FALSE, sg.msg)
                          ELSE Res("ok", op \o e32(off.v) \o e16(sg.v[2]),
                                   Add32(pc, U32(6)), FALSE, "")
      ELSE IF LastCh(tok) = ":" THEN Res("ok", << >>, pc, FALSE, "")
      ELSE Res("die", << >>, pc, FALSE, "unknown directive")

(***************************************************************************)
(* The output file: positions are long, kept as <<hi, lo>> whose hi half   *)
(* does not wrap; the contents map each written position to its byte.      *)
(***************************************************************************)
AddOff(p, n) == << p[1] + ((p[2] + n) \div HALF), (p[2] + n) % HALF >>

\* fputc(b, out) for each b of bs in turn, starting at position pos
RECURSIVE fputs_at(_, _, _)
fputs_at(f, pos, bs) ==
  IF bs = << >> THEN f
  ELSE fputs_at([o \in (DOMAIN f) \cup {pos} |-> IF o = pos THEN Head(bs) ELSE f[o]],
                AddOff(pos, 1), Tail(bs))

EmptyFile == [o \in {} |-> 0]

(***************************************************************************)
(* The input files of the model.                                           *)
(***************************************************************************)
LongP == "ABCDEFGHIJKLMNOP"

AsmLines ==
  { "L:", "jmp(L)", "call(M)", "M:", "org(0x100)", "org(0xFFFFFFFB)", "db(0xAA,0xBB)",
    "tape_start()", "fill(0x2,7)", LongP \o ":",
    "jmp(" \o LongP \o ")", "jmp(" \o StoredName(LongP) \o ")" }

ScopeLines == { "{", "}", "let &mut x", "let & y", "load()" }

DiagLines ==
  { "  tape_start()", "; note", "", "db(1,0x100)", "nop", "A:", "jmp(Z)", "power_gate(1)",
    "org(zz)", "}", "{", "int(0x80)", "head += 256", "let & y", "let &mut x" }

\* lines whose operands are immediates of every shape
ImmLines ==
  { "db(1,2,3)", "db(0xAA,0xBB)", "db(255)", "db(256)", "db(0,0x100)", "db()", "db(12abc)",
    "db(0x)", "db(-1)", "org(-1)", "int(0x1F)", "int(0x+7)", "fill(3,9)", "ljmp(0x10,8)",
    "ljmp(1,2z)" }

IOLines == { "db(1,2,3)", "org(0x100)", "jmp(L)", "L:", "int(0x80)" }

\* lines for files that fill asm1: the filler and the lines after it
CapFiller == "org(0)"

CapLines == { "org(0)", "power_gate(1,2)", "load()", "org_set(7)" }

\* the lines put inside deeply nested scopes
DeepLines == { "{", "}", "load()", "let &mut x" }

\* n copies of s
RECURSIVE Rep(_, _)
Rep(s, n) == IF n = 0 THEN "" ELSE s \o Rep(s, n - 1)

\* a raw line of n + 7 characters
Wide(n) == "db(1," \o Rep(" ", n) \o "2)"

\* raw lines of 83, 80, 79 and 78 characters among short ones
LongLines == { Wide(76), Wide(73), Wide(72), Wide(71), "L:", "jmp(L)", "; note" }

Files(lines, n) == UNION { [1..k -> lines] : k \in 0..n }

(***************************************************************************)
(* State.                                                                  *)
(*   file, fpos      the DSL file and the read position in it (raw line,   *)
(*                   characters of it already read)                        *)
(*   src             src[0..sl-1]                                          *)
(*   asm1, asmSrcLine            asm1[0..al-1] and its source indices      *)
(*   lines2, lines2AsmIdx        lines2[0..ln2-1] and its asm1 indices     *)
(*   bstack, sp      the borrow frames and the index of the current one    *)
(*   lbl2            lbl2[0..nl2-1]                                        *)
(*   out, outfile, outpos   the stream out ("unopened", "open", "closed"), *)
(*                   the contents of out.bin and the stream position       *)
(*   pc              the local pc of asm_passA, then of asm_passB          *)
(*   i               the loop index of the running pass                    *)
(*   phase           where main is: "read", "pass1", "copy", "size",       *)
(*                   "emit", then "done" (return 0), "failed" (exit(1))    *)
(*                   or "crashed" (a null pointer was read)                *)
(*   diag            what die / dieSrc / dieAsm printed                    *)
(*   medium          what out.bin is stored on: space is the number of     *)
(*                   bytes it still takes (-1: no limit), seekable whether *)
(*                   fseek on it succeeds                                  *)
(*   iofailed        a fputc or an fseek on out has returned failure (the  *)
(*                   code drops both return values)                        *)
(* Indices stored in asmSrcLine, lines2AsmIdx and i are the C indices      *)
(* (from 0); the TLA+ sequences are indexed from 1.                        *)
(***************************************************************************)
VARIABLES file, fpos, src, asm1, asmSrcLine, lines2, lines2AsmIdx, bstack, sp, lbl2,
          out, outfile, outpos, pc, i, phase, diag, medium, iofailed

vars == << file, fpos, src, asm1, asmSrcLine, lines2, lines2AsmIdx, bstack, sp, lbl2,
           out, outfile, outpos, pc, i, phase, diag, medium, iofailed >>

sl == Len(src)

al == Len(asm1)

ln2 == Len(lines2)

nl2 == Len(lbl2)

NoDiag == [kind |-> "none", line |-> 0, text |-> "", msg |-> ""]

ClearFrame == [bm |-> 0, bi |-> 0]

\* a static int array read at index k (0 where nothing was stored)
At0(a, k) == IF k + 1 \in DOMAIN a THEN a[k + 1] ELSE 0

\* a medium on which every write and every seek succeeds
Sound == [space |-> -1, seekable |-> TRUE]

InitFrom(files, media) ==
  /\ file \in files
  /\ medium \in media
  /\ iofailed = FALSE
  /\ fpos = <<0, 0>>
  /\ src = << >>
  /\ asm1 = << >>
  /\ asmSrcLine = << >>
  /\ lines2 = << >>
  /\ lines2AsmIdx = << >>
  /\ bstack = [d \in 0..(MAXS - 1) |-> ClearFrame]
  /\ sp = 0
  /\ lbl2 = << >>
  /\ out = "unopened"
  /\ outfile = EmptyFile
  /\ outpos = <<0, 0>>
  /\ pc = <<0, 0>>
  /\ i = 0
  /\ phase = "read"
  /\ diag = NoDiag

InitOn(lines, n, media) == InitFrom(Files(lines, n), media)

InitWith(lines, n) == InitOn(lines, n, {Sound})

Init == InitWith(AsmLines, MaxLines)

InitScope == InitWith(ScopeLines, MaxScopeLines)

InitDiag == InitWith(DiagLines, MaxDiagLines)

InitImm == InitWith(ImmLines, MaxImmLines)

\* files of MAXL-MaxCapGap..MAXL-1 filler lines followed by up to MaxCapTail lines
CapFiles ==
  { [k \in 1..n |-> CapFiller] \o t :
      n \in (MAXL - MaxCapGap)..(MAXL - 1), t \in Files(CapLines, MaxCapTail) }

InitCap == InitFrom(CapFiles, {Sound})

\* files of n "{" lines, up to MaxDeepBody lines and n "}" lines, n up to MAXS
DeepFiles ==
  { [k \in 1..n |-> "{"] \o t \o [k \in 1..n |-> "}"] :
      n \in (MAXS - MaxDeepGap)..MAXS, t \in Files(DeepLines, MaxDeepBody) }

InitDeep == InitFrom(DeepFiles, {Sound})

InitLong == InitWith(LongLines, MaxLongLines)

\* the media of the model: with room for 0..MaxSpace bytes or unlimited, seekable or not
Media == [space : -1..MaxSpace, seekable : BOOLEAN]

InitIO == InitOn(IOLines, MaxIOLines, Media)

(***************************************************************************)
(* die, dieSrc, dieAsm: the diagnostic and exit(1).                        *)
(***************************************************************************)
die(msg) ==
  /\ diag' = [kind |-> "die", line |-> 0, text |-> "", msg |-> msg]
  /\ phase' = "failed"

\* src[idx] as printed with %s (the rows of src past sl are empty)
SrcText(idx) == IF idx + 1 \in DOMAIN src THEN src[idx + 1] ELSE ""

dieSrc(idx, msg) ==
  /\ diag' = [kind |-> "src", line |-> idx + 1, text |-> SrcText(idx), msg |-> msg]
  /\ phase' = "failed"

\* the assembler index taken for the source index
SrcOfAsm_Direct(aidx) == aidx

\* int sidx = asmSrcLine[ lines2AsmIdx[aidx] ]
SrcOfAsm(aidx) == At0(asmSrcLine, At0(lines2AsmIdx, aidx))

dieAsm(aidx, msg) ==
  /\ diag' = [kind |-> "asm", line |-> SrcOfAsm(aidx) + 1, text |-> SrcText(SrcOfAsm(aidx)),
              msg |-> msg]
  /\ phase' = "failed"

(***************************************************************************)
(* read_src: one fgets(buf, LNSZ, f) and the body of the loop.             *)
(***************************************************************************)
\* what fgets returns at position fpos: at most LNSZ-1 characters, up to the newline
fgets(f, p) ==
  LET rest == From(f[p[1] + 1], p[2] + 1) \o "\n"
  IN  IF Len(rest) <= LNSZ - 1 THEN rest ELSE SubSeq(rest, 1, LNSZ - 1)

Retained(t) == t # "" /\ Ch(t, 1) # ";"

ReadSrcLine ==
  /\ phase = "read"
  /\ fpos[1] < Len(file)
  /\ LET buf == fgets(file, fpos)
         t   == trim(buf)
     IN  /\ fpos' = IF LastCh(buf) = "\n" THEN <<fpos[1] + 1, 0>>
                    ELSE <<fpos[1], fpos[2] + Len(buf)>>
         /\ IF Retained(t)
              THEN IF sl >= MAXL
                     THEN /\ die("too many source lines")
                          /\ UNCHANGED src
                     ELSE /\ src' = Append(src, t)
                          /\ UNCHANGED << phase, diag >>
              ELSE UNCHANGED << src, phase, diag >>
  /\ UNCHANGED << file, asm1, asmSrcLine, lines2, lines2AsmIdx, bstack, sp, lbl2,
                  out, outfile, outpos, pc, i, medium, iofailed >>

\* fgets returns NULL: fclose(f), and main enters pass1
ReadSrcEnd ==
  /\ phase = "read"
  /\ fpos[1] = Len(file)
  /\ phase' = "pass1"
  /\ sp' = 0
  /\ bstack' = [bstack EXCEPT ![0] = ClearFrame]
  /\ i' = 0
  /\ UNCHANGED << file, fpos, src, asm1, asmSrcLine, lines2, lines2AsmIdx, lbl2,
                  out, outfile, outpos, pc, diag, medium, iofailed >>

(***************************************************************************)
(* pass1: one iteration of the loop, and the check after the loop.         *)
(***************************************************************************)
\* if(sp+1>=MAXS) dieSrc(i,"scope overflow")
ScopeFull(s) == s + 1 >= MAXS

\* a frame entered without clearing its flags
PushFrame_NoReset(bs, s) == bs

\* sp++; bstack[sp].bm=bstack[sp].bi=0
PushFrame(bs, s) == [bs EXCEPT ![s + 1] = ClearFrame]

\* if(sp==0) dieSrc(i,"unmatched scope close")
NoOpenScope(s) == s = 0

\* only the mutable borrow is looked at
MutBorrowClash_MutOnly(f) == f.bm # 0

\* if(bstack[sp].bm||bstack[sp].bi) dieSrc(i,"borrow error")
MutBorrowClash(f) == f.bm # 0 \/ f.bi # 0

\* if(bstack[sp].bm) dieSrc(i,"borrow error")
ImmBorrowClash(f) == f.bm # 0

\* the check after the loop left out
ScopeLeftOpen_Never(s) == FALSE

\* if(sp!=0) dieSrc(sl-1,"unclosed scope(s)")
ScopeLeftOpen(s) == s # 0

\* the index of the lowered line taken for its provenance
SrcIdx_Lowered(idx, a) == a

\* asmSrcLine[al] = i: what is stored for the lowered line a made from source line idx
SrcIdx(idx, a) == idx

\* strcpy(asm1[al++], ...) and asmSrcLine[al] = i with n lines in asm1 afterwards:
\* within the arrays the writes are stored; past asm1[MAXL-1] the behaviour is
\* undefined, and the run either stops there or goes on with the lines stored in
\* the memory behind the arrays
PastEnd(n) == IF n > MAXL THEN {"crashed", "overrun"} ELSE {"stored"}

Pass1Line ==
  /\ phase = "pass1"
  /\ i < sl
  /\ \E r \in { pass1_line(trim(src[i + 1])) } :
     LET Go == /\ i' = i + 1
               /\ UNCHANGED << phase, diag >>
         Stop(msg) == /\ dieSrc(i, msg)
                      /\ UNCHANGED << i, sp, bstack, asm1, asmSrcLine >>
     IN  CASE r.act = "die" -> Stop(r.msg)
           [] r.act = "open" ->
                IF ScopeFull(sp) THEN Stop("scope overflow")
                ELSE /\ sp' = sp + 1
                     /\ bstack' = PushFrame(bstack, sp)
                     /\ Go
                     /\ UNCHANGED << asm1, asmSrcLine >>
           [] r.act = "close" ->
                IF NoOpenScope(sp) THEN Stop("unmatched scope close")
                ELSE /\ sp' = sp - 1
                     /\ Go
                     /\ UNCHANGED << bstack, asm1, asmSrcLine >>
           [] r.act = "letmut" ->
                IF MutBorrowClash(bstack[sp]) THEN Stop("borrow error")
                ELSE /\ bstack' = [bstack EXCEPT ![sp].bm = 1]
                     /\ Go
                     /\ UNCHANGED << sp, asm1, asmSrcLine >>
           [] r.act = "let" ->
                IF ImmBorrowClash(bstack[sp]) THEN Stop("borrow error")
                ELSE /\ bstack' = [bstack EXCEPT ![sp].bi = 1]
                     /\ Go
                     /\ UNCHANGED << sp, asm1, asmSrcLine >>
           [] r.act = "emit" ->
                IF r.lim >= 0 /\ al + r.lim >= MAXL THEN Stop("asm1 overflow")
                ELSE \E o \in PastEnd(al + Len(r.lines)) :
                       IF o = "crashed"
                         THEN /\ phase' = "crashed"
                              /\ UNCHANGED << i, sp, bstack, asm1, asmSrcLine, diag >>
                         ELSE /\ asm1' = asm1 \o r.lines
                              /\ asmSrcLine' = asmSrcLine \o [k \in 1..Len(r.lines) |-> SrcIdx(i, al + k - 1)]
                              /\ Go
                              /\ UNCHANGED << sp, bstack >>
  /\ UNCHANGED << file, fpos, src, lines2, lines2AsmIdx, lbl2, out, outfile, outpos, pc, medium, iofailed >>

Pass1End ==
  /\ phase = "pass1"
  /\ i = sl
  /\ IF ScopeLeftOpen(sp)
       THEN /\ dieSrc(sl - 1, "unclosed scope(s)")
            /\ UNCHANGED i
       ELSE /\ phase' = "copy"
            /\ i' = 0
            /\ UNCHANGED diag
  /\ UNCHANGED << file, fpos, src, asm1, asmSrcLine, lines2, lines2AsmIdx, bstack, sp, lbl2,
                  out, outfile, outpos, pc, medium, iofailed >>

(***************************************************************************)
(* asm_passA: the copy loop as one step, then one iteration of the sizing  *)
(* loop per step.  malloc is taken to succeed.                             *)
(***************************************************************************)
PassACopy ==
  /\ phase = "copy"
  /\ IF al > MAXL
       THEN \* ln2 reaches MAXL at iteration MAXL
            /\ lines2' = SubSeq(asm1, 1, MAXL)
            /\ lines2AsmIdx' = [k \in 1..MAXL |-> k - 1]
            /\ dieAsm(MAXL, "lines2 overflow")
            /\ UNCHANGED << i, pc >>
       ELSE /\ lines2' = asm1
            /\ lines2AsmIdx' = [k \in 1..al |-> k - 1]
            /\ phase' = "size"
            /\ i' = 0
            /\ pc' = <<0, 0>>
            /\ UNCHANGED diag
  /\ UNCHANGED << file, fpos, src, asm1, asmSrcLine, bstack, sp, lbl2, out, outfile, outpos, medium, iofailed >>

\* the sizer's pc after a line that is not a label definition
SizerAdvance(p, ln) == Add32(p, line_sz(ln).sz)

PassASize ==
  /\ phase = "size"
  /\ i < ln2
  /\ LET toks == Tokens(trim(lines2[i + 1]))
         Go == /\ i' = i + 1
               /\ UNCHANGED << phase, diag >>
     IN  IF toks = << >>
           THEN Go /\ UNCHANGED << lbl2, pc >>
         ELSE IF LastCh(toks[1]) = ":"
           THEN LET r == recordLabel(lbl2, SubSeq(toks[1], 1, Len(toks[1]) - 1), pc)
                IN  IF r.ok
                      THEN /\ lbl2' = r.tbl
                           /\ Go
                           /\ UNCHANGED pc
                      ELSE /\ dieAsm(i, r.msg)
                           /\ UNCHANGED << i, lbl2, pc >>
         ELSE IF line_sz(lines2[i + 1]).crash
           THEN /\ phase' = "crashed"
                /\ UNCHANGED << i, lbl2, pc, diag >>
         ELSE /\ pc' = SizerAdvance(pc, lines2[i + 1])
              /\ Go
              /\ UNCHANGED lbl2
  /\ UNCHANGED << file, fpos, src, asm1, asmSrcLine, lines2, lines2AsmIdx, bstack, sp,
                  out, outfile, outpos, medium, iofailed >>

(***************************************************************************)
(* asm_passB: fopen, one iteration of the loop per step, fclose.  A write  *)
(* or a seek succeeds or fails as the medium decides; a failed fputc       *)
(* writes nothing, a failed fseek leaves the position.  free(lines2[i])    *)
(* releases the lines below i; no later step reads them.                   *)
(***************************************************************************)
PassBOpen ==
  /\ phase = "size"
  /\ i = ln2
  /\ \E opened \in BOOLEAN :
       IF opened
         THEN /\ out' = "open"
              /\ outfile' = EmptyFile
              /\ outpos' = <<0, 0>>
              /\ pc' = <<0, 0>>
              /\ i' = 0
              /\ phase' = "emit"
              /\ UNCHANGED << diag, medium, iofailed >>
         ELSE /\ die("cannot create output file")
              /\ UNCHANGED << out, outfile, outpos, pc, i, medium, iofailed >>
  /\ UNCHANGED << file, fpos, src, asm1, asmSrcLine, lines2, lines2AsmIdx, bstack, sp, lbl2 >>

\* the position is left where it was
fseek_skipped(pos, v) == pos

\* fseek(out, pc, SEEK_SET): the new position of the stream (pc converted to long)
fseek_set(pos, v) == v

\* the bytes of bs that fputc stores: all of them, or as many as the medium takes
Accepted(md, bs) == IF md.space < 0 THEN bs ELSE SubSeq(bs, 1, Min(Len(bs), md.space))

\* the medium after the bytes bs were put
MediumAfter(md, bs) ==
  IF md.space < 0 THEN md ELSE [md EXCEPT !.space = md.space - Len(Accepted(md, bs))]

\* the stream out after a fatal diagnostic in the emitter: dieAsm calls exit(1)
\* and never fclose(out)
OutAfterDie(o) == o

PassBLine ==
  /\ phase = "emit"
  /\ i < ln2
  /\ LET toks == Tokens(lines2[i + 1])
     IN  IF toks = << >>
           THEN /\ i' = i + 1
                /\ UNCHANGED << out, outfile, outpos, pc, phase, diag, medium, iofailed >>
           ELSE \E r \in { asm_line(toks, lbl2, pc) } :
                    /\ outfile' = fputs_at(outfile, outpos, Accepted(medium, r.bytes))
                    /\ outpos' = IF r.seek
                                   THEN IF medium.seekable THEN fseek_set(outpos, r.pc)
                                        ELSE outpos
                                   ELSE AddOff(outpos, Len(Accepted(medium, r.bytes)))
                    /\ medium' = MediumAfter(medium, r.bytes)
                    /\ iofailed' = (\/ iofailed
                                    \/ Len(Accepted(medium, r.bytes)) < Len(r.bytes)
                                    \/ r.seek /\ ~medium.seekable)
                    /\ CASE r.res = "ok" ->
                              /\ pc' = r.pc
                              /\ i' = i + 1
                              /\ UNCHANGED << out, phase, diag >>
                         [] r.res = "die" ->
                              /\ dieAsm(i, r.msg)
                              /\ out' = OutAfterDie(out)
                              /\ pc' = r.pc
                              /\ UNCHANGED i
                         [] r.res = "crash" ->
                              /\ phase' = "crashed"
                              /\ pc' = r.pc
                              /\ UNCHANGED << out, i, diag >>
  /\ UNCHANGED << file, fpos, src, asm1, asmSrcLine, lines2, lines2AsmIdx, bstack, sp, lbl2 >>

PassBClose ==
  /\ phase = "emit"
  /\ i = ln2
  /\ out' = "closed"
  /\ phase' = "done"
  /\ UNCHANGED << file, fpos, src, asm1, asmSrcLine, lines2, lines2AsmIdx, bstack, sp, lbl2,
                  outfile, outpos, pc, i, diag, medium, iofailed >>

Next ==
  \/ ReadSrcLine
  \/ ReadSrcEnd
  \/ Pass1Line
  \/ Pass1End
  \/ PassACopy
  \/ PassASize
  \/ PassBOpen
  \/ PassBLine
  \/ PassBClose

Spec == Init /\ [][Next]_vars

SpecScope == InitScope /\ [][Next]_vars

SpecDiag == InitDiag /\ [][Next]_vars

SpecImm == InitImm /\ [][Next]_vars

SpecCap == InitCap /\ [][Next]_vars

SpecDeep == InitDeep /\ [][Next]_vars

SpecLong == InitLong /\ [][Next]_vars

SpecIO == InitIO /\ [][Next]_vars

TypeOK ==
  /\ phase \in {"read", "pass1", "copy", "size", "emit", "done", "failed", "crashed"}
  /\ sp \in 0..(MAXS - 1)
  /\ out \in {"unopened", "open", "closed"}
  /\ Len(asmSrcLine) = al
  /\ Len(lines2AsmIdx) = ln2

(***************************************************************************)
(* Reading the state: the lines of lines2 and what the passes made of them.*)
(***************************************************************************)
FirstTok(ln) == LET t == Tokens(ln) IN IF t = << >> THEN "" ELSE t[1]

IsLabelDef(ln) == LastCh(FirstTok(ln)) = ":"

\* the name a label-definition line defines, as written
DefName(ln) == SubSeq(FirstTok(ln), 1, Len(FirstTok(ln)) - 1)

IsJump(ln) == FirstTok(ln) = "JMP" \/ FirstTok(ln) = "CALL"

\* the label a JMP or CALL line refers to
JumpTarget(ln) == Tokens(ln)[2]

\* the number of label-definition lines among lines2[0..k-1]
LabelDefsBefore(k) == Cardinality({ j \in 1..k : IsLabelDef(lines2[j]) })

\* the emitter's PC when it reaches lines2[k]: the PC handed from line to line
RECURSIVE EmitterPcAt(_)
EmitterPcAt(k) ==
  IF k = 0 THEN <<0, 0>>
  ELSE LET t == Tokens(lines2[k])
       IN  IF t = << >> THEN EmitterPcAt(k - 1)
           ELSE asm_line(t, lbl2, EmitterPcAt(k - 1)).pc

\* the value of four bytes read as a little-endian 32-bit word
LE32(b0, b1, b2, b3) == << b3 * 256 + b2, b1 * 256 + b0 >>

\* the byte of out.bin at position p, -1 where nothing was written
FileByte(f, p) == IF p \in DOMAIN f THEN f[p] ELSE -1

\* C1: label stability. In an accepted program, for every label-definition line the
\* address the sizer recorded for it (the entry of the label table made for that
\* line) is the PC the emitter holds when it reaches the line.
C1_LabelStability ==
  phase = "done" =>
    \A k \in 1..ln2 :
      IsLabelDef(lines2[k]) => lbl2[LabelDefsBefore(k)].addr = EmitterPcAt(k - 1)

\* C2: a JMP or CALL to a label L that has a definition line writes the opcode
\* (E9 for JMP, E8 for CALL) and then four bytes d, least significant first, with
\* (PC at the start of the instruction + 5 + d) mod 2^32 = the address recorded
\* for the definition of L.
C2_JumpStep ==
  (/\ phase = "emit" /\ i < ln2 /\ i' = i + 1
   /\ IsJump(lines2[i + 1])
   /\ \E k \in 1..ln2 : IsLabelDef(lines2[k]) /\ DefName(lines2[k]) = JumpTarget(lines2[i + 1]))
  => LET ln   == lines2[i + 1]
         k    == CHOOSE k \in 1..ln2 : IsLabelDef(lines2[k]) /\ DefName(lines2[k]) = JumpTarget(ln)
         dest == lbl2[LabelDefsBefore(k)].addr
         B(n) == FileByte(outfile', AddOff(outpos, n))
     IN  /\ B(0) = (IF FirstTok(ln) = "JMP" THEN 233 ELSE 232)
         /\ \A n \in 1..4 : B(n) \in 0..255
         /\ Add32(Add32(pc, U32(5)), LE32(B(1), B(2), B(3), B(4))) = dest
         /\ outpos' = AddOff(outpos, 5)
         /\ pc' = Add32(pc, U32(5))

C2_Displacement == [][C2_JumpStep]_vars

\* C2 witness: "L:" then "jmp(L)" was translated and out.bin is E9 FB FF FF FF.
C2_Witness ==
  /\ phase = "done"
  /\ lines2 = << "L:", "JMP L" >>
  /\ outfile = fputs_at(EmptyFile, <<0, 0>>, << 233, 251, 255, 255, 255 >>)

\* a jump whose PC + 5 wraps at 2^32 was emitted: the emitter stands at PC 0 again
C2_WrapReached ==
  /\ phase = "done"
  /\ lines2 = << "ORG 0xFFFFFFFB", "JMP L", "L:" >>
  /\ pc = <<0, 0>>
  /\ outpos = <<HALF, 0>>

\* the positions pos, pos+1, ..., pos+n-1 of out.bin
Span(pos, n) == { AddOff(pos, k) : k \in 0..(n - 1) }

\* the positions whose byte differs between the files f and g
Changed(f, g) ==
  { o \in (DOMAIN f) \cup (DOMAIN g) : FileByte(f, o) # FileByte(g, o) }

\* C3, the ORG step and the steps after it: an ORG V line leaves the emitter with
\* PC = V and the stream at position V and writes nothing; every other line writes
\* its bytes at the stream position and the positions following it, as many as the
\* PC advances by.
C3_EmitStep ==
  (phase = "emit" /\ i < ln2 /\ i' = i + 1)
  => IF FirstTok(lines2[i + 1]) = "ORG"
       THEN /\ pc' = parseImm(Tokens(lines2[i + 1])[2]).v
            /\ outpos' = pc'
            /\ outfile' = outfile
       ELSE LET n == Sub32(pc', pc)[2]
            IN  /\ outpos' = AddOff(outpos, n)
                /\ Span(outpos, n) \subseteq DOMAIN outfile'
                /\ Changed(outfile, outfile') \subseteq Span(outpos, n)

\* C3, where the next byte goes: between lines the stream position is the PC
\* (the position is a long and does not wrap at 2^32 as the PC does).
C3_PosIsPc == phase = "emit" => << outpos[1] % HALF, outpos[2] >> = pc

\* C3, the two examples: org(0x100) then db(0xAA,0xBB) puts AA at 0x100 and BB at
\* 0x101 and nothing else; tape_start() alone puts BE 00 05 at 0x500.
C3_Examples ==
  /\ (phase = "done" /\ src = << "org(0x100)", "db(0xAA,0xBB)" >>)
       => outfile = (<<0, 256>> :> 170 @@ <<0, 257>> :> 187)
  /\ (phase = "done" /\ src = << "tape_start()" >>)
       => outfile = (<<0, 1280>> :> 190 @@ <<0, 1281>> :> 0 @@ <<0, 1282>> :> 5)

\* C3: after ORG V the emitter's PC is V, ORG writes no byte, and the bytes emitted
\* next are in out.bin at V, V+1, V+2, ...
C3_OrgPlacement == [](C3_PosIsPc /\ C3_Examples) /\ [][C3_EmitStep]_vars

\* C3 witness: org(0x100) then db(0xAA,0xBB) was translated, AA is at 0x100 and BB
\* at 0x101.
C3_Witness ==
  /\ phase = "done"
  /\ lines2 = << "ORG 0x100", "DB 0xAA,0xBB" >>
  /\ FileByte(outfile, <<0, 256>>) = 170
  /\ FileByte(outfile, <<0, 257>>) = 187

\* the lowered lines a DSL line gives
Lowered(line) == pass1_line(trim(line)).lines

\* the DSL line (numbered from 1) whose lowering holds asm1[k], found by counting
\* the lowered lines of src[0], src[1], ... ; j is the line looked at and acc the
\* number of lowered lines of the lines before it
RECURSIVE OriginFrom(_, _, _)
OriginFrom(j, acc, k) ==
  IF j > sl THEN 0
  ELSE IF k < acc + Len(Lowered(src[j])) THEN j
  ELSE OriginFrom(j + 1, acc + Len(Lowered(src[j])), k)

Origin(k) == OriginFrom(1, 0, k)

HasDefLine(nm) == \E k \in 1..ln2 : IsLabelDef(lines2[k]) /\ DefName(lines2[k]) = nm

\* C5: the label table is complete before the emitter reads it; a JMP or CALL to a
\* label that has a definition line, before or after it, is resolved (it does not
\* fail as undefined); a program with a JMP or CALL to a label without a definition
\* line is not accepted.
C5_Resolution ==
  /\ phase \in {"emit", "done"} => nl2 = LabelDefsBefore(ln2)
  /\ (phase = "failed" /\ diag.msg = "undefined label")
       => ~HasDefLine(JumpTarget(lines2[i + 1]))
  /\ phase = "done"
       => \A k \in 1..ln2 : IsJump(lines2[k]) => HasDefLine(JumpTarget(lines2[k]))

\* C6: no two entries of the label table have the same name, and a program with
\* two definition lines of one name is not accepted.
C6_UniqueLabels ==
  /\ \A a, b \in 1..nl2 : a # b => lbl2[a].name # lbl2[b].name
  /\ phase \in {"emit", "done"}
       => \A a, b \in 1..ln2 :
            (a # b /\ IsLabelDef(lines2[a]) /\ IsLabelDef(lines2[b]))
              => DefName(lines2[a]) # DefName(lines2[b])

\* the DSL line the lowerer is about to read
AtLine == IF phase = "pass1" /\ i < sl THEN src[i + 1] ELSE ""

\* the step ends in dieSrc at the line being read, with this message
Rejected(msg) ==
  /\ phase' = "failed"
  /\ diag' = [kind |-> "src", line |-> i + 1, text |-> src[i + 1], msg |-> msg]

\* C7, the two borrow lines: "let &mut" is a borrow error exactly when the current
\* frame has mut_borrowed or imm_borrowed set and sets mut_borrowed otherwise;
\* "let &" is a borrow error exactly when the current frame has mut_borrowed set
\* and sets imm_borrowed otherwise.
C7_BorrowStep ==
  /\ HasPrefix(AtLine, "let &mut") =>
       IF bstack[sp].bm = 1 \/ bstack[sp].bi = 1
         THEN Rejected("borrow error")
         ELSE /\ phase' = "pass1" /\ i' = i + 1 /\ sp' = sp
              /\ bstack' = [bstack EXCEPT ![sp] = [bm |-> 1, bi |-> 0]]
  /\ (HasPrefix(AtLine, "let &") /\ ~HasPrefix(AtLine, "let &mut")) =>
       IF bstack[sp].bm = 1
         THEN Rejected("borrow error")
         ELSE /\ phase' = "pass1" /\ i' = i + 1 /\ sp' = sp
              /\ bstack' = [bstack EXCEPT ![sp] = [bm |-> 0, bi |-> 1]]

\* C7, the frames: no frame has both flags set.
C7_NeverBoth == \A d \in DOMAIN bstack : ~(bstack[d].bm = 1 /\ bstack[d].bi = 1)

\* C7: the borrow discipline of the current frame.
C7_BorrowDiscipline == []C7_NeverBoth /\ [][C7_BorrowStep]_vars

\* C7 witness: "{", "let &mut x", "let & y", "}" is rejected at "let & y".
C7_Witness ==
  /\ file = << "{", "let &mut x", "let & y", "}" >>
  /\ phase = "failed"
  /\ diag = [kind |-> "src", line |-> 3, text |-> "let & y", msg |-> "borrow error"]
  /\ bstack[1] = [bm |-> 1, bi |-> 0]

\* the number of open "{" after the lines ls, -1 once a "}" had none to close
RECURSIVE OpenAfter(_)
OpenAfter(ls) ==
  IF ls = << >> THEN 0
  ELSE LET before == OpenAfter(SubSeq(ls, 1, Len(ls) - 1))
           l      == ls[Len(ls)]
       IN  IF before < 0 THEN -1
           ELSE IF l = "{" THEN before + 1
           ELSE IF l = "}" THEN before - 1
           ELSE before

\* C8: in a program the lowerer accepts, no prefix has more "}" lines than "{"
\* lines and the whole program has as many of the one as of the other; the scope
\* errors are raised at a "}" with no "{" open and at the end with a "{" open.
C8_Balanced ==
  /\ phase \in {"copy", "size", "emit", "done"} =>
       /\ \A n \in 0..sl : OpenAfter(SubSeq(src, 1, n)) >= 0
       /\ OpenAfter(src) = 0
  /\ (phase = "failed" /\ diag.msg = "unmatched scope close") =>
       /\ OpenAfter(SubSeq(src, 1, i)) = 0
       /\ src[i + 1] = "}"
  /\ (phase = "failed" /\ diag.msg = "unclosed scope(s)") => OpenAfter(src) > 0

\* C8 witness: a program with nested scopes was accepted.
C8_Witness ==
  /\ phase = "done"
  /\ src = << "{", "{", "}", "}" >>

\* C9: a "{" line makes a cleared frame current and leaves the frames up to the old
\* current one as they were; a "}" line makes the enclosing frame current again
\* with the flags it had; every other line leaves the frames below the current one
\* as they were. So the enclosing frame has after "}" the flags it had before the
\* matching "{".
C9_ScopeStep ==
  (phase = "pass1" /\ i < sl /\ i' = i + 1) =>
    IF AtLine = "{"
      THEN /\ sp' = sp + 1
           /\ bstack'[sp'] = ClearFrame
           /\ \A d \in 0..sp : bstack'[d] = bstack[d]
      ELSE IF AtLine = "}"
        THEN /\ sp' = sp - 1
             /\ \A d \in 0..sp' : bstack'[d] = bstack[d]
        ELSE /\ sp' = sp
             /\ \A d \in 0..(sp - 1) : bstack'[d] = bstack[d]

C9_ScopeFlags == [][C9_ScopeStep]_vars

\* C9 witness: after "let & y", "{", "let &mut x", "}" the outer frame is current
\* with imm_borrowed alone, and the frame left behind had mut_borrowed.
C9_Witness ==
  /\ phase = "pass1"
  /\ src = << "let & y", "{", "let &mut x", "}" >>
  /\ i = 4
  /\ sp = 0
  /\ bstack[0] = [bm |-> 0, bi |-> 1]
  /\ bstack[1] = [bm |-> 1, bi |-> 0]

\* C10: when the process has ended, by return or by a fatal diagnostic, the output
\* file is not left open: it was never opened, or the emitter closed it.
C10_Closed == phase \in {"done", "failed"} => out \in {"unopened", "closed"}

(***************************************************************************)
(* Immediates: the operand texts of a lowered line, and the two shapes the *)
(* language gives an immediate.                                            *)
(***************************************************************************)
DecSet == { Ch(HexDigits, k) : k \in 1..10 }

AllIn(s, set) == \A k \in 1..Len(s) : tolower(Ch(s, k)) \in set

\* 0x followed by one or more hex digits, or one or more decimal digits
WellFormedImm(s) ==
  \/ Len(s) > 2 /\ SubSeq(s, 1, 2) = "0x" /\ AllIn(From(s, 3), HexSet)
  \/ Len(s) > 0 /\ AllIn(s, DecSet)

\* the number a well-formed immediate denotes
RECURSIVE NatOf(_, _, _)
NatOf(s, base, acc) ==
  IF s = "" THEN acc ELSE NatOf(From(s, 2), base, acc * base + HexVal[tolower(Ch(s, 1))])

ImmNat(s) == IF Len(s) > 2 /\ SubSeq(s, 1, 2) = "0x" THEN NatOf(From(s, 3), 16, 0)
             ELSE NatOf(s, 10, 0)

\* the operand texts of a DB, FILL, INT, ORG or LJMP line (none for other lines)
ImmOperands(ln) ==
  LET toks == Tokens(ln)
      tok  == FirstTok(ln)
  IN  IF tok = "DB" THEN SubSeq(toks, 2, Len(toks))
      ELSE IF tok = "FILL" THEN SubSeq(toks, 2, Min(Len(toks), 3))
      ELSE IF tok = "INT" \/ tok = "ORG" THEN SubSeq(toks, 2, Min(Len(toks), 2))
      ELSE IF tok = "LJMP" /\ Len(toks) >= 2 /\ StrChr(toks[2], ":") > 0
        THEN << SubSeq(toks[2], 1, StrChr(toks[2], ":") - 1),
                From(toks[2], StrChr(toks[2], ":") + 1) >>
      ELSE << >>

\* C11: when the emitter takes a DB, FILL, INT, ORG or LJMP line one of whose
\* operands is neither 0x and hex digits nor decimal digits, the step ends the run
\* with a fatal assembler diagnostic; the operand is never turned into a value.
C11_ImmStep ==
  (/\ phase = "emit"
   /\ i < ln2
   /\ \E k \in 1..Len(ImmOperands(lines2[i + 1])) :
         ~WellFormedImm(ImmOperands(lines2[i + 1])[k]))
  => (phase' = "failed" /\ diag'.kind = "asm")

C11_OnlyTwoShapes == [][C11_ImmStep]_vars

\* C12, the DB step: with every operand a well-formed immediate, a DB line of N
\* operands all in 0..255 writes exactly N bytes, the operands' values in order, at
\* the stream position, and advances the PC by N, the size the sizer gives the line;
\* with an operand above 255 the run fails with the out-of-range diagnostic.
C12_DbStep ==
  LET ops == ImmOperands(lines2[i + 1])
      N   == Len(ops)
  IN  (/\ phase = "emit"
       /\ i < ln2
       /\ FirstTok(lines2[i + 1]) = "DB"
       /\ \A k \in 1..N : WellFormedImm(ops[k]))
      => IF \A k \in 1..N : ImmNat(ops[k]) <= 255
           THEN /\ phase' = "emit"
                /\ i' = i + 1
                /\ pc' = Add32(pc, U32(N))
                /\ line_sz(lines2[i + 1]).sz = U32(N)
                /\ outpos' = AddOff(outpos, N)
                /\ \A k \in 1..N : FileByte(outfile', AddOff(outpos, k - 1)) = ImmNat(ops[k])
                /\ Changed(outfile, outfile') \subseteq Span(outpos, N)
           ELSE /\ phase' = "failed"
                /\ diag'.msg = "DB byte out of range"

\* C12, the whole file: db(x1,...,xN) followed by no other emission leaves out.bin
\* with exactly the N bytes x1..xN.
C12_Examples ==
  /\ (phase = "done" /\ src = << "db(1,2,3)" >>)
       => outfile = (<<0, 0>> :> 1 @@ <<0, 1>> :> 2 @@ <<0, 2>> :> 3)
  /\ (phase = "done" /\ src = << "db(255)" >>) => outfile = (<<0, 0>> :> 255)
  /\ src = << "db(256)" >> => phase # "done"

C12_RangeReached == phase = "failed" /\ diag.msg = "DB byte out of range"

\* C13: the process returns 0 only if every fputc and every fseek on the output
\* file succeeded.
C13_NothingSwallowed == phase = "done" => ~iofailed

\* C14, one DSL line: Pass 1 leaves at most MAXL lowered lines, and a line whose
\* lowering needs an index past MAXL-1 ends the run with the capacity diagnostic
\* and writes nothing.
C14_LowerStep ==
  (phase = "pass1" /\ i < sl)
  => /\ Len(asm1') <= MAXL
     /\ al + Len(Lowered(src[i + 1])) > MAXL
          => (phase' = "failed" /\ diag'.msg = "asm1 overflow" /\ asm1' = asm1)

\* C14: the lowered sequence never exceeds its capacity.
C14_Capacity == [](al <= MAXL) /\ [][C14_LowerStep]_vars

\* the line is a scope or a borrow line
IsScopeLine(line) == line = "{" \/ line = "}" \/ HasPrefix(line, "let &")

\* C15, one DSL line: a Pass 1 step that goes on to the next line appends zero, one
\* or two lowered lines after those already there, each with the index of the DSL
\* line just processed as its provenance; a scope or borrow line appends none; a
\* step that ends the run appends none.
C15_LowerStep ==
  (phase = "pass1" /\ i < sl)
  => /\ Len(asm1') - al \in 0..2
     /\ SubSeq(asm1', 1, al) = asm1
     /\ SubSeq(asmSrcLine', 1, al) = asmSrcLine
     /\ \A k \in (al + 1)..Len(asm1') : asmSrcLine'[k] = i
     /\ IsScopeLine(src[i + 1]) => asm1' = asm1
     /\ i' = i => asm1' = asm1

\* C15, every lowered line: its provenance is an index of a DSL line already
\* processed, and the provenances do not decrease along the lowered sequence.
C15_ProvenanceValid ==
  /\ Len(asmSrcLine) = al
  /\ \A k \in 1..al : asmSrcLine[k] \in 0..(sl - 1)
  /\ \A k \in 1..al : phase = "pass1" => asmSrcLine[k] < i
  /\ \A k \in 1..(al - 1) : asmSrcLine[k] <= asmSrcLine[k + 1]
  /\ \A k \in 1..al : phase = "pass1" => ~IsScopeLine(src[asmSrcLine[k] + 1])

\* C15: lowering output per DSL line.
C15_Lowering == []C15_ProvenanceValid /\ [][C15_LowerStep]_vars

\* C15 witness: a borrow line, a two-line built-in and a copied line were lowered:
\* none, two and one lowered lines, with provenances 1, 1, 2.
C15_Witness ==
  /\ phase = "copy"
  /\ src = << "let & y", "tape_start()", "nop" >>
  /\ asm1 = << "ORG 0x500", "DB 0xBE,0x00,0x05", "nop" >>
  /\ asmSrcLine = << 1, 1, 2 >>

\* C16, a "{" line: with the open "{" counted from the text, the line is accepted
\* when at most 16 are open after it and rejected with the scope-overflow
\* diagnostic when more would be.
C16_OpenStep ==
  (phase = "pass1" /\ i < sl /\ src[i + 1] = "{")
  => IF OpenAfter(SubSeq(src, 1, i + 1)) <= 16
       THEN /\ phase' = "pass1"
            /\ i' = i + 1
            /\ sp' = sp + 1
       ELSE /\ phase' = "failed"
            /\ diag'.msg = "scope overflow"

\* C16, the index of the current frame stays within bstack[0..MAXS-1].
C16_IndexInBounds == sp \in 0..(MAXS - 1)

\* C16: scope depth bound.
C16_DepthBound == []C16_IndexInBounds /\ [][C16_OpenStep]_vars

\* the source lines a file gives when each raw line is cut to its first LNSZ-1
\* characters, trimmed, and kept unless it is empty or a comment
RECURSIVE Kept(_)
Kept(f) ==
  IF f = << >> THEN << >>
  ELSE LET t == trim(SubSeq(Head(f), 1, Min(Len(Head(f)), LNSZ - 1)))
       IN  (IF t # "" /\ Ch(t, 1) # ";" THEN << t >> ELSE << >>) \o Kept(Tail(f))

\* C17: once the file is read, the source lines are the kept raw lines in order,
\* a raw line longer than the cap giving its leading LNSZ-1 characters and nothing
\* more.
C17_Truncated == phase # "read" => src = Kept(file)

====
